---- MODULE Spec2Model ----
(***************************************************************************)
(* A model of rust_grid_calc: the Maidenhead grid decoder (lib.rs) and the *)
(* ADIF tokenizer, assembler, exporter and validator (adif.rs).            *)
(*                                                                         *)
(* Text is a sequence of characters, each a one-character string.  A       *)
(* record (a Python dict) is a sequence of <<key, value>> pairs with       *)
(* pairwise different keys, in insertion order.  Angles are exact integers *)
(* in units of 1/11520 degree, the half of the finest latitude step.       *)
(***************************************************************************)
EXTENDS Integers, Sequences, FiniteSets, TLC

VARIABLES
    grid,      \* the grid string handed to the decoder
    gpc,       \* "input" while the grid string is typed, "done" after a call
    gop,       \* the lib.rs function that was called
    gres,      \* what the call returned
    grids,     \* the list of grids handed to batch_calculate_distances
    text,      \* the text handed to parse_fields
    nseg,      \* pieces the text was put together from
    pos,       \* chars consumed by the tokenizer's iterator
    result,    \* the dict the tokenizer builds
    tpc,       \* "input", "scan" or "done"
    passes,    \* passes of the outer scan loop made so far
    last,      \* what the last pass of the scan loop did
    record,    \* the dict handed to the exporter and the validator
    fpc,       \* "build" while the dict is filled, "done" after a call
    fop,       \* the adif.rs function that was called
    fres,      \* what the call returned
    skcc,      \* the member number handed to extract_base_skcc
    contacts,  \* the contacts handed to calculate_centurion_progress
    apc,       \* "input" while the arguments are made, "done" after a call
    aop,       \* the awards.rs function that was called
    ares       \* what the call returned

gridVars == <<grid, gpc, gop, gres, grids>>
tokVars == <<text, nseg, pos, result, tpc, passes, last>>
fmtVars == <<record, fpc, fop, fres>>
awardVars == <<skcc, contacts, apc, aop, ares>>
vars == <<grid, gpc, gop, gres, grids, text, nseg, pos, result, tpc, passes, last,
          record, fpc, fop, fres, skcc, contacts, apc, aop, ares>>

(***************************************************************************)
(* Characters.                                                             *)
(***************************************************************************)
LowerCase == <<"a","b","c","d","e","f","g","h","i","j","k","l","m",
               "n","o","p","q","r","s","t","u","v","w","x","y","z">>
UpperCase == <<"A","B","C","D","E","F","G","H","I","J","K","L","M",
               "N","O","P","Q","R","S","T","U","V","W","X","Y","Z">>
Digits == <<"0","1","2","3","4","5","6","7","8","9">>

IndexOf(s, c) == CHOOSE i \in 1..Len(s) : s[i] = c
InSeq(s, c) == \E i \in 1..Len(s) : s[i] = c

\* char::to_uppercase, on the characters of the model
ToUpperChar(c) == IF InSeq(LowerCase, c) THEN UpperCase[IndexOf(LowerCase, c)] ELSE c

\* str::to_uppercase
to_uppercase(s) == [i \in 1..Len(s) |-> ToUpperChar(s[i])]

\* `c as i32`: the code point
CharCode(c) ==
    IF InSeq(UpperCase, c) THEN 64 + IndexOf(UpperCase, c)
    ELSE IF InSeq(LowerCase, c) THEN 96 + IndexOf(LowerCase, c)
    ELSE IF InSeq(Digits, c) THEN 47 + IndexOf(Digits, c)
    ELSE IF c = " " THEN 32
    ELSE IF c = "\n" THEN 10
    ELSE IF c = "+" THEN 43
    ELSE IF c = "." THEN 46
    ELSE IF c = ":" THEN 58
    ELSE IF c = "<" THEN 60
    ELSE IF c = ">" THEN 62
    ELSE IF c = "_" THEN 95
    ELSE 233   \* "U+E9", e-acute: one char, two bytes in UTF-8

\* char::to_digit(10): -1 stands for None
to_digit(c) == IF InSeq(Digits, c) THEN IndexOf(Digits, c) - 1 ELSE -1

(***************************************************************************)
(* The grid decoder, lib.rs.                                               *)
(***************************************************************************)
\* units per degree: 1/5760 degree is the finest latitude step, its half the unit
Scale == 2 * 5760

GridErr(kind) == [ok |-> FALSE, err |-> kind, lat |-> 0, lon |-> 0]
GridOk(la, lo) == [ok |-> TRUE, err |-> "none", lat |-> la, lon |-> lo]

\* `(chars[i] as i32 - 'A' as i32)`
LetterOffset(c) == CharCode(c) - CharCode("A")

\* the length test of grid_to_latlon
GridLengthOk(n) == ~(n < 4 \/ n > 10)

\* lines 84-86: what is added to reach the centre of the cell, <<lat, lon>>,
\* for a grid string of n chars
GridCenter(n) == <<Scale \div 2, Scale>>

\* lines 41-82: the south-west corner of the cell, <<lat, lon>>; chars has
\* passed the length test and holds digits where to_digit is called
GridCorner(chars) ==
    LET n == Len(chars)
        lon0 == -180 * Scale + LetterOffset(chars[1]) * 20 * Scale
                  + to_digit(chars[3]) * 2 * Scale
        lat0 == -90 * Scale + LetterOffset(chars[2]) * 10 * Scale
                  + to_digit(chars[4]) * Scale
        lon1 == IF n >= 6
                THEN lon0 + LetterOffset(chars[5]) * ((2 * Scale) \div 24)
                ELSE lon0
        lat1 == IF n >= 6
                THEN lat0 + LetterOffset(chars[6]) * (Scale \div 24)
                ELSE lat0
        lon2 == IF n >= 8
                THEN lon1 + to_digit(chars[7]) * ((2 * Scale) \div 240)
                ELSE lon1
        lat2 == IF n >= 8
                THEN lat1 + to_digit(chars[8]) * (Scale \div 240)
                ELSE lat1
        lon3 == IF n >= 10
                THEN lon2 + LetterOffset(chars[9]) * ((2 * Scale) \div 5760)
                ELSE lon2
        lat3 == IF n >= 10
                THEN lat2 + LetterOffset(chars[10]) * (Scale \div 5760)
                ELSE lat2
    IN  <<lat3, lon3>>

grid_to_latlon(g) ==
    LET chars == to_uppercase(g)
        n == Len(chars)
    IN  IF ~GridLengthOk(n) THEN GridErr("length")
        ELSE IF to_digit(chars[3]) < 0 \/ to_digit(chars[4]) < 0
             THEN GridErr("digit")
        ELSE IF n >= 8 /\ (to_digit(chars[7]) < 0 \/ to_digit(chars[8]) < 0)
             THEN GridErr("ext_digit")
        ELSE GridOk(GridCorner(chars)[1] + GridCenter(n)[1],
                    GridCorner(chars)[2] + GridCenter(n)[2])

\* calculate_distance and calculate_bearing: `?` hands on the first error of
\* the two decodes; the trigonometry of an Ok result is not modelled
PairResult(g1, g2) ==
    LET a == grid_to_latlon(g1)
        b == grid_to_latlon(g2)
    IN  IF ~a.ok THEN a
        ELSE IF ~b.ok THEN b
        ELSE [ok |-> TRUE, err |-> "none", p1 |-> a, p2 |-> b]

\* the distance is the haversine of the two decoded points, which the result
\* carries in its place
calculate_distance(g1, g2) == PairResult(g1, g2)
\* the two decodes of calculate_bearing; its angle is BearingResults below
calculate_bearing(g1, g2) == PairResult(g1, g2)

(***************************************************************************)
(* The angle of calculate_bearing.  An f64 number of degrees is written    *)
(* deg + q * 2^-48 with two integers: deg whole degrees and q units of     *)
(* 2^-48 degree, a sixteenth of the step between neighbouring f64 numbers  *)
(* from 256 to 512.  A number between two whole units is written with the  *)
(* unit farther from zero.                                                 *)
(***************************************************************************)
F64(d, u) == [deg |-> d, q |-> u]

\* the step between neighbouring f64 numbers, in units: 2^-44 degree from
\* 256 to 512 and 2^-45 degree from 128 to 256
Ulp(x) == IF x.deg > 256 \/ (x.deg = 256 /\ x.q >= 0) THEN 16 ELSE 8

\* the multiple of step nearest to u, the even one of two that are as near
RoundTiesEven(u, step) ==
    LET lo == step * (u \div step)
        rest == u - lo
    IN  IF 2 * rest < step THEN lo
        ELSE IF 2 * rest > step THEN lo + step
        ELSE IF (u \div step) % 2 = 0 THEN lo ELSE lo + step

\* bearing < 0.0
IsNegative(bearing) == bearing.deg < 0 \/ (bearing.deg = 0 /\ bearing.q < 0)

\* bearing += 360.0 for a bearing from -180 to 0: the sum, from 180 to 360,
\* rounded to an f64 number
AddAssign360(bearing) ==
    LET sum == F64(bearing.deg + 360, bearing.q)
    IN  F64(sum.deg, RoundTiesEven(sum.q, Ulp(sum)))

\* lines 163-165
Normalize(bearing) ==
    IF IsNegative(bearing) THEN AddAssign360(bearing) ELSE bearing

\* y.atan2(x).to_degrees() for two decoded points of valid locators.  The
\* sines and cosines are not computed here; what is kept of them is the sign
\* of the angle, which is the sign of sin(delta_lon), and how small it is:
\*  - grid2 on the meridian of grid1: 0 to the north, 180 to the south;
\*  - grid2 180 degrees west of grid1 and the two latitudes adding up to
\*    20..160 degrees: delta_lon.sin() is not 0 but -1.2246e-16, x is near
\*    sin(lat1 + lat2), and the angle is negative and under 6 units, as
\*    -5.402e-15 (1.52 units) from JN00 to AN00;
\*  - any other grid2 to the west: an angle from -180 up to under 0, here
\*    -180, -179, -90 or -1; to the east: an angle from over 0 up to 180,
\*    here one unit, 1, 90, 179 or 180.
Atan2Degrees(p1, p2) ==
    LET delta_lon == p2.lon - p1.lon
        lat_sum == p1.lat + p2.lat
    IN  IF delta_lon = 0
        THEN (IF p2.lat < p1.lat THEN {F64(180, 0)} ELSE {F64(0, 0)})
        ELSE IF /\ delta_lon = -180 * Scale
                /\ 20 * Scale <= lat_sum /\ lat_sum <= 160 * Scale
        THEN {F64(0, -u) : u \in 1..6}
        ELSE IF (-180 * Scale <= delta_lon /\ delta_lon < 0)
                \/ delta_lon > 180 * Scale
        THEN {F64(-180, 0), F64(-179, 0), F64(-90, 0), F64(-1, 0)}
        ELSE {F64(0, 1), F64(1, 0), F64(90, 0), F64(179, 0), F64(180, 0)}

\* what calculate_bearing can return for two grid strings
BearingResults(g1, g2) ==
    LET r == PairResult(g1, g2)
    IN  IF ~r.ok THEN {r}
        ELSE {[ok |-> TRUE, err |-> "none", bearing |-> Normalize(a)] :
                  a \in Atan2Degrees(r.p1, r.p2)}

\* Option
None == [some |-> FALSE]
Some(dist) == [some |-> TRUE, value |-> dist]

\* the loop of batch_calculate_distances from element k on
RECURSIVE BatchLoop(_, _, _, _)
BatchLoop(home_grid, gs, k, results) ==
    IF k > Len(gs) THEN results
    ELSE LET r == calculate_distance(home_grid, gs[k])
         IN  BatchLoop(home_grid, gs, k + 1,
                       Append(results, IF r.ok THEN Some(r) ELSE None))

\* a batch that gives up at the first grid that fails, as `?` would
RECURSIVE BatchLoopQuestionMark(_, _, _, _)
BatchLoopQuestionMark(home_grid, gs, k, results) ==
    IF k > Len(gs) THEN [ok |-> TRUE, value |-> results]
    ELSE LET r == calculate_distance(home_grid, gs[k])
         IN  IF r.ok
             THEN BatchLoopQuestionMark(home_grid, gs, k + 1,
                                        Append(results, Some(r)))
             ELSE r

batch_question_mark(home_grid, gs) ==
    BatchLoopQuestionMark(home_grid, gs, 1, <<>>)

batch_calculate_distances(home_grid, gs) ==
    [ok |-> TRUE, value |-> BatchLoop(home_grid, gs, 1, <<>>)]

(***************************************************************************)
(* The field tokenizer, adif.rs parse_fields_internal.                     *)
(***************************************************************************)
Min(a, b) == IF a < b THEN a ELSE b

\* char::is_whitespace, on the characters of the model
IsWhite(c) == c = " " \/ c = "\n"

RECURSIVE TrimStart(_)
TrimStart(s) ==
    IF s # <<>> /\ IsWhite(Head(s)) THEN TrimStart(Tail(s)) ELSE s

RECURSIVE TrimEnd(_)
TrimEnd(s) ==
    IF s # <<>> /\ IsWhite(s[Len(s)]) THEN TrimEnd(SubSeq(s, 1, Len(s) - 1)) ELSE s

\* str::trim
Trim(s) == TrimEnd(TrimStart(s))

RECURSIVE DecValue(_)
DecValue(ds) ==
    IF ds = <<>> THEN 0
    ELSE 10 * DecValue(SubSeq(ds, 1, Len(ds) - 1)) + to_digit(ds[Len(ds)])

\* str::parse::<usize>: an optional '+', then one digit or more; -1 stands
\* for Err (a value beyond usize::MAX is an Err too, and beyond the texts here)
ParseUsize(s) ==
    LET ds == IF s # <<>> /\ Head(s) = "+" THEN Tail(s) ELSE s
    IN  IF ds # <<>> /\ \A i \in 1..Len(ds) : to_digit(ds[i]) >= 0
        THEN DecValue(ds)
        ELSE -1

\* PyDict::set_item: a present key keeps its place and takes the new value
DictHas(d, k) == \E i \in 1..Len(d) : d[i][1] = k
DictIndex(d, k) == CHOOSE i \in 1..Len(d) : d[i][1] = k
DictGet(d, k) == d[DictIndex(d, k)][2]
\* a dict that keeps every item it is given
set_item_append(d, k, v) == Append(d, <<k, v>>)

set_item(d, k, v) ==
    IF DictHas(d, k)
    THEN [d EXCEPT ![DictIndex(d, k)] = <<k, v>>]
    ELSE Append(d, <<k, v>>)

\* the loop of lines 65-75: i chars are consumed, name is read so far
RECURSIVE ReadName(_, _, _)
ReadName(t, i, name) ==
    IF i >= Len(t) THEN [i |-> i, str |-> name]
    ELSE IF t[i + 1] = ":" THEN [i |-> i + 1, str |-> name]
    ELSE IF t[i + 1] = ">" \/ t[i + 1] = "<" THEN [i |-> i, str |-> name]
    ELSE ReadName(t, i + 1, Append(name, t[i + 1]))

\* the loop of lines 83-92
RECURSIVE ReadLength(_, _, _)
ReadLength(t, i, len) ==
    IF i >= Len(t) THEN [i |-> i, str |-> len]
    ELSE IF t[i + 1] = ">" THEN [i |-> i + 1, str |-> len]
    ELSE IF t[i + 1] = "<" THEN [i |-> i, str |-> len]
    ELSE ReadLength(t, i + 1, Append(len, t[i + 1]))

\* the pass at '<' that stores the field name as it was read, not upper-cased
ScanTagRawName(t, i, d) ==
    LET nm == ReadName(t, i + 1, <<>>)
    IN  IF nm.str = <<>>
        THEN [kind |-> "no_name", from |-> i, to |-> nm.i, dict |-> d,
              name |-> <<>>, value |-> <<>>]
        ELSE
          LET ln == ReadLength(t, nm.i, <<>>)
              length == ParseUsize(Trim(ln.str))
          IN  IF length < 0
              THEN [kind |-> "no_length", from |-> i, to |-> ln.i, dict |-> d,
                    name |-> <<>>, value |-> <<>>]
              ELSE
                LET stop == Min(ln.i + length, Len(t))
                    value == Trim(SubSeq(t, ln.i + 1, stop))
                IN  [kind |-> "field", from |-> i, to |-> stop,
                     dict |-> set_item(d, nm.str, value),
                     name |-> nm.str, value |-> value]

\* lines 61-112: the pass that meets '<' with i chars consumed and the dict d
ScanTag(t, i, d) ==
    LET nm == ReadName(t, i + 1, <<>>)
    IN  IF nm.str = <<>>
        THEN [kind |-> "no_name", from |-> i, to |-> nm.i, dict |-> d,
              name |-> <<>>, value |-> <<>>]
        ELSE
          LET ln == ReadLength(t, nm.i, <<>>)
              length == ParseUsize(Trim(ln.str))
          IN  IF length < 0
              THEN [kind |-> "no_length", from |-> i, to |-> ln.i, dict |-> d,
                    name |-> <<>>, value |-> <<>>]
              ELSE
                LET stop == Min(ln.i + length, Len(t))
                    value == Trim(SubSeq(t, ln.i + 1, stop))
                    field_upper == to_uppercase(nm.str)
                IN  [kind |-> "field", from |-> i, to |-> stop,
                     dict |-> set_item(d, field_upper, value),
                     name |-> field_upper, value |-> value]

\* a scan loop that forgets the chars.next() of line 115
ScanPassStuck(t, i, d) ==
    IF t[i + 1] # "<"
    THEN [kind |-> "skip", from |-> i, to |-> i, dict |-> d,
          name |-> <<>>, value |-> <<>>]
    ELSE ScanTag(t, i, d)

\* One pass of the loop `while let Some(&ch) = chars.peek()`, entered with i
\* chars consumed (i < Len(t)) and the dict d.
ScanPass(t, i, d) ==
    IF t[i + 1] # "<"
    THEN [kind |-> "skip", from |-> i, to |-> i + 1, dict |-> d,
          name |-> <<>>, value |-> <<>>]
    ELSE ScanTag(t, i, d)

\* parse_fields_internal as a function of its text
RECURSIVE ScanFrom(_, _, _)
ScanFrom(t, i, d) ==
    IF i >= Len(t) THEN d
    ELSE LET p == ScanPass(t, i, d) IN ScanFrom(t, p.to, p.dict)

parse_fields_internal(t) == ScanFrom(t, 0, <<>>)
parse_fields(t) == parse_fields_internal(t)

(***************************************************************************)
(* The exporter, the assembler and the validator, adif.rs.                 *)
(***************************************************************************)
CALL == <<"C", "A", "L", "L">>
QSO_DATE == <<"Q", "S", "O", "_", "D", "A", "T", "E">>
TIME_ON == <<"T", "I", "M", "E", "_", "O", "N">>
EOH == <<"<", "E", "O", "H", ">">>
EOR == <<"<", "E", "O", "R", ">">>

\* BAND, CALL, COMMENT, ... PROPAGATION_MODE
field_order ==
    << <<"B", "A", "N", "D">>,
       <<"C", "A", "L", "L">>,
       <<"C", "O", "M", "M", "E", "N", "T">>,
       <<"C", "O", "U", "N", "T", "R", "Y">>,
       <<"D", "X", "C", "C">>,
       <<"F", "R", "E", "Q">>,
       <<"A", "P", "P", "_", "S", "K", "C", "C", "L", "O", "G", "G", "E", "R", "_", "K", "E", "Y", "T", "Y", "P", "E">>,
       <<"M", "O", "D", "E">>,
       <<"M", "Y", "_", "G", "R", "I", "D", "S", "Q", "U", "A", "R", "E">>,
       <<"N", "A", "M", "E">>,
       <<"O", "P", "E", "R", "A", "T", "O", "R">>,
       <<"Q", "S", "O", "_", "D", "A", "T", "E">>,
       <<"Q", "T", "H">>,
       <<"R", "S", "T", "_", "R", "C", "V", "D">>,
       <<"R", "S", "T", "_", "S", "E", "N", "T">>,
       <<"S", "K", "C", "C">>,
       <<"S", "T", "A", "T", "E">>,
       <<"S", "T", "A", "T", "I", "O", "N", "_", "C", "A", "L", "L", "S", "I", "G", "N">>,
       <<"T", "I", "M", "E", "_", "O", "F", "F">>,
       <<"T", "I", "M", "E", "_", "O", "N">>,
       <<"T", "X", "_", "P", "W", "R">>,
       <<"R", "X", "_", "P", "W", "R">>,
       <<"C", "O", "N", "T", "E", "S", "T", "_", "I", "D">>,
       <<"G", "R", "I", "D", "S", "Q", "U", "A", "R", "E">>,
       <<"N", "O", "T", "E", "S">>,
       <<"D", "I", "S", "T", "A", "N", "C", "E">>,
       <<"P", "R", "O", "P", "A", "G", "A", "T", "I", "O", "N", "_", "M", "O", "D", "E">> >>

required_fields == <<CALL, QSO_DATE, TIME_ON>>

\* `{}` of a usize: its decimal digits
RECURSIVE ToDec(_)
ToDec(n) ==
    IF n < 10 THEN <<Digits[n + 1]>>
    ELSE ToDec(n \div 10) \o <<Digits[(n % 10) + 1]>>

\* the bytes of a char in UTF-8
CharBytes(c) == IF c = "U+E9" THEN 2 ELSE 1

\* String::len: the length in bytes
RECURSIVE len(_)
len(str) == IF str = <<>> THEN 0 ELSE CharBytes(Head(str)) + len(Tail(str))

\* format!("<{}:{}>{}", name, value.len(), value) and what follows it
FormatTag(name, value, sep) ==
    <<"<">> \o name \o <<":">> \o ToDec(len(value)) \o <<">">> \o value \o sep

\* the <<name, value>> that the loop of lines 194-202 writes, in its order
RECURSIVE OrderedEmits(_, _)
OrderedEmits(rec, k) ==
    IF k > Len(field_order) THEN <<>>
    ELSE (IF DictHas(rec, field_order[k]) /\ DictGet(rec, field_order[k]) # <<>>
          THEN << <<field_order[k], DictGet(rec, field_order[k])>> >>
          ELSE <<>>)
         \o OrderedEmits(rec, k + 1)

\* the <<name, value>> that the loop of lines 205-213 writes, in its order
RECURSIVE RemainingEmits(_, _)
RemainingEmits(rec, k) ==
    IF k > Len(rec) THEN <<>>
    ELSE (IF ~InSeq(field_order, to_uppercase(rec[k][1])) /\ rec[k][2] # <<>>
          THEN << <<to_uppercase(rec[k][1]), rec[k][2]>> >>
          ELSE <<>>)
         \o RemainingEmits(rec, k + 1)

\* format_record with the remaining fields written before the ordered ones
FormatEmitsSwapped(rec) == RemainingEmits(rec, 1) \o OrderedEmits(rec, 1)

\* the tags format_record writes, as <<name, value>>, in the order written
FormatEmits(rec) == OrderedEmits(rec, 1) \o RemainingEmits(rec, 1)

\* the text of the tags em, each followed by a space
RECURSIVE FormatTags(_)
FormatTags(em) ==
    IF em = <<>> THEN <<>>
    ELSE FormatTag(em[1][1], em[1][2], <<" ">>) \o FormatTags(Tail(em))

format_record(rec) == FormatTags(FormatEmits(rec)) \o EOR

\* validate_record that tests is_empty() without trim()
RECURSIVE MissingNoTrim(_, _)
MissingNoTrim(rec, k) ==
    IF k > Len(required_fields) THEN <<>>
    ELSE (IF ~DictHas(rec, required_fields[k])
             \/ DictGet(rec, required_fields[k]) = <<>>
          THEN <<required_fields[k]>>
          ELSE <<>>)
         \o MissingNoTrim(rec, k + 1)

\* the loop of lines 257-270: the list `missing`
RECURSIVE Missing(_, _)
Missing(rec, k) ==
    IF k > Len(required_fields) THEN <<>>
    ELSE (IF ~DictHas(rec, required_fields[k])
             \/ Trim(DictGet(rec, required_fields[k])) = <<>>
          THEN <<required_fields[k]>>
          ELSE <<>>)
         \o Missing(rec, k + 1)

validate_record(rec) ==
    [ok |-> Missing(rec, 1) = <<>>, missing |-> Missing(rec, 1)]

\* the custom header fields of export_adi, lines 158-165
RECURSIVE HeaderTags(_)
HeaderTags(hdr) ==
    IF hdr = <<>> THEN <<>>
    ELSE FormatTag(to_uppercase(hdr[1][1]), hdr[1][2], <<"\n">>) \o HeaderTags(Tail(hdr))

RECURSIVE RecordLines(_)
RecordLines(records) ==
    IF records = <<>> THEN <<>>
    ELSE format_record(Head(records)) \o <<"\n">> \o RecordLines(Tail(records))

export_adi(records, header, program_id, program_version) ==
    <<"A", "D", "I", "F", " ", "E", "x", "p", "o", "r", "t", " ", "f", "r", "o", "m", " ">> \o program_id \o <<"\n">>
    \o FormatTag(<<"P", "R", "O", "G", "R", "A", "M", "I", "D">>, program_id, <<"\n">>)
    \o FormatTag(<<"P", "R", "O", "G", "R", "A", "M", "V", "E", "R", "S", "I", "O", "N">>, program_version, <<"\n">>)
    \o <<"<", "A", "D", "I", "F", "_", "V", "E", "R", ":", "5", ">", "3", ".", "1", ".", "5", "\n">>
    \o HeaderTags(header)
    \o EOH \o <<"\n", "\n">>
    \o RecordLines(records)

\* str::find: the chars before the first place where pat stands in t, -1
\* when there is none
IsAt(t, i, pat) == i + Len(pat) <= Len(t) /\ SubSeq(t, i + 1, i + Len(pat)) = pat
RECURSIVE find(_, _, _)
find(t, i, pat) ==
    IF i + Len(pat) > Len(t) THEN -1
    ELSE IF IsAt(t, i, pat) THEN i
    ELSE find(t, i + 1, pat)

\* str::split: the pieces of t between the places of pat
RECURSIVE split(_, _)
split(t, pat) ==
    LET i == find(t, 0, pat)
    IN  IF i < 0 THEN <<t>>
        ELSE <<SubSeq(t, 1, i)>> \o split(SubSeq(t, i + Len(pat) + 1, Len(t)), pat)

\* a loop that pushes every record, the empty ones too
RECURSIVE ParseChunksKeepEmpty(_)
ParseChunksKeepEmpty(chunks) ==
    IF chunks = <<>> THEN <<>>
    ELSE <<parse_fields_internal(Trim(Head(chunks)))>>
         \o ParseChunksKeepEmpty(Tail(chunks))

\* the loop of lines 37-47 over the chunks
RECURSIVE ParseChunks(_)
ParseChunks(chunks) ==
    IF chunks = <<>> THEN <<>>
    ELSE LET trimmed == Trim(Head(chunks))
             rec == parse_fields_internal(trimmed)
         IN  (IF trimmed = <<>> \/ rec = <<>> THEN <<>> ELSE <<rec>>)
             \o ParseChunks(Tail(chunks))

parse_adi(content) ==
    LET at == find(content, 0, EOH)
        header_str == IF at >= 0 THEN SubSeq(content, 1, at) ELSE <<>>
        records_str == IF at >= 0
                       THEN SubSeq(content, at + Len(EOH) + 1, Len(content))
                       ELSE content
    IN  [header |-> parse_fields_internal(header_str),
         records |-> ParseChunks(split(records_str, EOR))]

\* the loop of lines 230-240 over the chunks
RECURSIVE BatchChunks(_, _)
BatchChunks(chunks, records) ==
    IF chunks = <<>> THEN records
    ELSE LET trimmed == Trim(Head(chunks))
         IN  IF trimmed = <<>> THEN BatchChunks(Tail(chunks), records)
             ELSE LET rec == parse_fields_internal(trimmed)
                  IN  IF rec # <<>>
                      THEN BatchChunks(Tail(chunks), Append(records, rec))
                      ELSE BatchChunks(Tail(chunks), records)

\* a batch that pushes every record, the empty ones too
batch_parse_keep_empty(records_str) ==
    ParseChunksKeepEmpty(split(records_str, EOR))

batch_parse_records(records_str) == BatchChunks(split(records_str, EOR), <<>>)

(***************************************************************************)
(* The award counters, awards.rs.  A mode, a key type, a callsign, a date  *)
(* and a band are only compared as wholes and are strings here; a member   *)
(* number is a sequence of characters.                                     *)
(***************************************************************************)
\* split_whitespace().next() of a string that starts with no whitespace
RECURSIVE FirstToken(_)
FirstToken(s) ==
    IF s = <<>> \/ IsWhite(Head(s)) THEN <<>>
    ELSE <<Head(s)>> \o FirstToken(Tail(s))

\* base.pop() when the last char is one of the letter suffixes
PopSuffix(base) ==
    IF base # <<>> /\ base[Len(base)] \in {"C", "T", "S"}
    THEN SubSeq(base, 1, Len(base) - 1)
    ELSE base

\* base[..pos] when base.find('x') is Some(pos)
CutMultiplier(base) ==
    LET at == find(base, 0, <<"x">>)
    IN  IF at >= 0 THEN SubSeq(base, 1, at) ELSE base

is_ascii_digit(c) == InSeq(Digits, c)

extract_base_skcc(number) ==
    LET trimmed == Trim(number)
    IN  IF trimmed = <<>> THEN None
        ELSE LET base == CutMultiplier(PopSuffix(FirstToken(trimmed)))
             IN  IF (\A i \in 1..Len(base) : is_ascii_digit(base[i])) /\ base # <<>>
                 THEN Some(base)
                 ELSE None

MechanicalKeys == {"STRAIGHT", "BUG", "SIDESWIPER"}

\* a contact is <<callsign, skcc_number, mode, key_type, qso_date, band>>;
\* the loop of calculate_centurion_progress from contact k on, with the set
\* unique_members and the map member_details, a set of
\* <<base, callsign, qso_date, band>> with one element for a base
RECURSIVE CenturionLoop(_, _, _, _)
CenturionLoop(cs, k, unique_members, member_details) ==
    IF k > Len(cs)
    THEN [count |-> Cardinality(unique_members), details |-> member_details]
    ELSE LET c == cs[k]
             base_num == extract_base_skcc(c[2])
         IN  IF c[3] # "CW" \/ c[4] \notin MechanicalKeys \/ ~base_num.some
             THEN CenturionLoop(cs, k + 1, unique_members, member_details)
             ELSE CenturionLoop(cs, k + 1,
                      unique_members \cup {base_num.value},
                      IF \E d \in member_details : d[1] = base_num.value
                      THEN member_details
                      ELSE member_details \cup
                               {<<base_num.value, c[1], c[5], c[6]>>})

\* the details are collected from a HashMap, in no order that the code
\* fixes: they are returned as a set
calculate_centurion_progress(cs) == CenturionLoop(cs, 1, {}, {})

(***************************************************************************)
(* Bounds and input alphabets.                                             *)
(***************************************************************************)
MaxGridLen == 11
MaxSegs == 3
MaxFields == 3
MaxTripFields == 4
MaxBatch == 3
MaxAdiSegs == 4
MaxSkccLen == 4
MaxContacts == 2

\* 'R' is the last field letter, 'x' a lower-case subsquare letter, '9' a digit
GridChars == {"R", "x", "9"}
\* the other grid of a distance or bearing call: a locator, and an empty string
OtherGrids == {<<"R", "R", "9", "9">>, <<>>}
\* the grids of a bearing: locators on the meridians of 1 degree east, of
\* 179 degrees west and of 179 degrees east, and a string that is too short
BearingGrids ==
    { <<"J", "N", "0", "0">>, <<"J", "J", "0", "0">>, <<"J", "A", "0", "0">>,
      <<"A", "N", "0", "0">>, <<"A", "O", "0", "5">>, <<"A", "A", "0", "0">>,
      <<"R", "R", "9", "9">>, <<"J", "N", "0">> }
\* the home grids of a batch: a locator, and a string that is too short
HomeGrids == {<<"J", "N", "0", "0">>, <<"J", "N", "0">>}
\* the grids of a batch: two locators, a string that is too short and one
\* with letters in the place of the square digits
BatchGrids == {<<"A", "N", "0", "0">>, <<"R", "R", "9", "9">>,
               <<"R", "R", "9">>, <<"R", "R", "x", "x">>}

\* the pieces a text is put together from: single characters, tags with a
\* value of the declared length, a tag alone, and tags that are cut short
TokSegments ==
    { <<"<">>, <<":">>, <<">">>, <<"1">>, <<" ">>, <<"x">>,
      <<"<", "a", ":", "1", ">", "x">>,
      <<"<", "A", ":", "2", ">", "y", " ">>,
      <<"<", "B", ":", "1", ">", "z">>,
      <<"<", "B", ":", "0", ">">>,
      <<"<", "c", ":", "2", ">", " ", "w">>,
      <<"<", "a", ":", "2", ">">>,
      <<"<", "a", ":", "1">>,
      <<"<", "a">>,
      <<"<", "a", ">">>,
      <<"<", "a", ":", "x", ">">>,
      <<"<", ":", "1", ">">> }

\* the pieces a document is put together from: the two sentinels, two tags
\* with their values, a tag whose value runs on to the end of its chunk, a
\* blank and a character outside any tag
AdiSegments ==
    { EOH, EOR,
      <<"<", "a", ":", "1", ">", "x">>,
      <<"<", "B", ":", "1", ">", "y">>,
      <<"<", "c", ":", "9", ">">>,
      <<" ">>, <<"x">> }

\* keys of the records that are formatted and validated: the required
\* fields, a lower-case key whose upper case is in field_order, and two keys
\* that are not, one of them lower-case
FmtKeys == {CALL, QSO_DATE, TIME_ON, <<"b", "a", "n", "d">>, <<"Z">>, <<"q">>}
\* their values: empty, blank, and not blank
FmtValues == {<<>>, <<" ">>, <<"x">>}

\* keys and values of the records that are exported and parsed back
TripKeys == {CALL, QSO_DATE, TIME_ON, <<"n", "a", "m", "e">>, <<"q">>}
TripValues == {<<"x">>, <<"U+E9", "U+E9">>}
\* the custom header fields, the program ids and the program versions
TripHeaders == {<<>>, << <<<<"h">>, <<"v">>>> >>}
ProgramIds == {<<"W">>, <<"w", "4">>, <<"U+E9", "U+E9">>}
ProgramVersions == {<<"1">>}

\* the characters of a member number: a digit, two letter suffixes and
\* the 'x' of a multiplier
SkccChars == {"7", "C", "T", "x"}
\* the contacts: two callsigns, four member numbers, a mode and a key type
\* that count and a mode and a key type that do not
Callsigns == {"K1SP", "W4GNS"}
ContactNumbers == {<<"7">>, <<"7", "T">>, <<"7", "C", "x", "7">>, <<"8", "x", "2">>}
Modes == {"CW", "SSB"}
KeyTypes == {"STRAIGHT", "PADDLE"}

NoCall == [op |-> "none"]
NoPass == [kind |-> "none", from |-> 0, to |-> 0, dict |-> <<>>,
           name |-> <<>>, value |-> <<>>]

(***************************************************************************)
(* The grid decoder as a state machine: a grid string is typed, then one   *)
(* of the functions of lib.rs is called on it.                             *)
(***************************************************************************)
GridIdle ==
    /\ grid = <<>> /\ gpc = "input" /\ gop = "none" /\ gres = NoCall
    /\ grids = <<>>
TokIdle ==
    /\ text = <<>> /\ nseg = 0 /\ pos = 0 /\ result = <<>> /\ tpc = "input"
    /\ passes = 0 /\ last = NoPass
FmtIdle == record = <<>> /\ fpc = "build" /\ fop = "none" /\ fres = NoCall

AwardIdle ==
    /\ skcc = <<>> /\ contacts = <<>> /\ apc = "input" /\ aop = "none"
    /\ ares = NoCall

Init == GridIdle /\ TokIdle /\ FmtIdle /\ AwardIdle

GridType(c) ==
    /\ gpc = "input"
    /\ Len(grid) < MaxGridLen
    /\ grid' = Append(grid, c)
    /\ UNCHANGED <<gpc, gop, gres, grids, tokVars, fmtVars, awardVars>>

GridToLatlon ==
    /\ gpc = "input"
    /\ gpc' = "done"
    /\ gop' = "grid_to_latlon"
    /\ gres' = grid_to_latlon(grid)
    /\ UNCHANGED <<grid, grids, tokVars, fmtVars, awardVars>>

CalculateDistance(other) ==
    /\ gpc = "input"
    /\ gpc' = "done"
    /\ gop' = "calculate_distance"
    /\ gres' = calculate_distance(grid, other)
    /\ UNCHANGED <<grid, grids, tokVars, fmtVars, awardVars>>

CalculateBearing(other) ==
    /\ gpc = "input"
    /\ gpc' = "done"
    /\ gop' = "calculate_bearing"
    /\ gres' = calculate_bearing(grid, other)
    /\ UNCHANGED <<grid, grids, tokVars, fmtVars, awardVars>>

NextGrid ==
    \/ \E c \in GridChars : GridType(c)
    \/ GridToLatlon
    \/ \E other \in OtherGrids : CalculateDistance(other)
    \/ \E other \in OtherGrids : CalculateBearing(other)

SpecGrid == Init /\ [][NextGrid]_vars

(***************************************************************************)
(* The batch as a state machine: a home grid is chosen, grids are pushed   *)
(* on the list, and batch_calculate_distances is called on both.           *)
(***************************************************************************)
BatchHome(h) ==
    /\ gpc = "input"
    /\ grid = <<>>
    /\ grid' = h
    /\ UNCHANGED <<gpc, gop, gres, grids, tokVars, fmtVars, awardVars>>

BatchPush(g) ==
    /\ gpc = "input"
    /\ Len(grids) < MaxBatch
    /\ grids' = Append(grids, g)
    /\ UNCHANGED <<grid, gpc, gop, gres, tokVars, fmtVars, awardVars>>

BatchCalculateDistances ==
    /\ gpc = "input"
    /\ gpc' = "done"
    /\ gop' = "batch_calculate_distances"
    /\ gres' = batch_calculate_distances(grid, grids)
    /\ UNCHANGED <<grid, grids, tokVars, fmtVars, awardVars>>

NextBatch ==
    \/ \E h \in HomeGrids : BatchHome(h)
    \/ \E g \in BatchGrids : BatchPush(g)
    \/ BatchCalculateDistances

SpecBatch == Init /\ [][NextBatch]_vars

(***************************************************************************)
(* The bearing as a state machine: the first grid is chosen, then          *)
(* calculate_bearing is called on it and a second grid, which is kept as   *)
(* the one element of grids.                                               *)
(***************************************************************************)
BearingFrom(g1) ==
    /\ gpc = "input"
    /\ grid = <<>>
    /\ grid' = g1
    /\ UNCHANGED <<gpc, gop, gres, grids, tokVars, fmtVars, awardVars>>

CalculateBearingTo(g2) ==
    /\ gpc = "input"
    /\ gpc' = "done"
    /\ gop' = "calculate_bearing"
    /\ grids' = <<g2>>
    /\ \E r \in BearingResults(grid, g2) : gres' = r
    /\ UNCHANGED <<grid, tokVars, fmtVars, awardVars>>

NextBearing ==
    \/ \E g1 \in BearingGrids : BearingFrom(g1)
    \/ \E g2 \in BearingGrids : CalculateBearingTo(g2)

SpecBearing == Init /\ [][NextBearing]_vars

(***************************************************************************)
(* The tokenizer as a state machine: a text is put together, parse_fields  *)
(* is called, and each pass of its scan loop is one step.                  *)
(***************************************************************************)
TokType(seg) ==
    /\ tpc = "input"
    /\ nseg < MaxSegs
    /\ text' = text \o seg
    /\ nseg' = nseg + 1
    /\ UNCHANGED <<pos, result, tpc, passes, last, gridVars, fmtVars, awardVars>>

ParseFieldsCall ==
    /\ tpc = "input"
    /\ tpc' = "scan"
    /\ pos' = 0
    /\ result' = <<>>
    /\ passes' = 0
    /\ UNCHANGED <<text, nseg, last, gridVars, fmtVars, awardVars>>

ParseFieldsPass ==
    /\ tpc = "scan"
    /\ pos < Len(text)
    /\ LET p == ScanPass(text, pos, result)
       IN  /\ pos' = p.to
           /\ result' = p.dict
           /\ last' = p
    /\ passes' = passes + 1
    /\ UNCHANGED <<text, nseg, tpc, gridVars, fmtVars, awardVars>>

ParseFieldsReturn ==
    /\ tpc = "scan"
    /\ pos >= Len(text)
    /\ tpc' = "done"
    /\ UNCHANGED <<text, nseg, pos, result, passes, last, gridVars, fmtVars, awardVars>>

NextTok ==
    \/ \E seg \in TokSegments : TokType(seg)
    \/ ParseFieldsCall
    \/ ParseFieldsPass
    \/ ParseFieldsReturn

SpecTok == Init /\ [][NextTok]_vars

(***************************************************************************)
(* The exporter and the validator as a state machine: a dict is filled,    *)
(* then format_record or validate_record is called on it.                  *)
(***************************************************************************)
FmtSetItem(k, v) ==
    /\ fpc = "build"
    /\ Len(record) < MaxFields
    /\ ~DictHas(record, k)
    /\ record' = set_item(record, k, v)
    /\ UNCHANGED <<fpc, fop, fres, gridVars, tokVars, awardVars>>

FormatRecord ==
    /\ fpc = "build"
    /\ fpc' = "done"
    /\ fop' = "format_record"
    /\ fres' = [emits |-> FormatEmits(record), text |-> format_record(record)]
    /\ UNCHANGED <<record, gridVars, tokVars, awardVars>>

ValidateRecord ==
    /\ fpc = "build"
    /\ fpc' = "done"
    /\ fop' = "validate_record"
    /\ fres' = validate_record(record)
    /\ UNCHANGED <<record, gridVars, tokVars, awardVars>>

NextFmt ==
    \/ \E k \in FmtKeys, v \in FmtValues : FmtSetItem(k, v)
    \/ FormatRecord
    \/ ValidateRecord

SpecFmt == Init /\ [][NextFmt]_vars

(***************************************************************************)
(* The round trip as a state machine: a dict is filled, export_adi writes  *)
(* it as the one record of a document, and parse_adi reads the document.   *)
(***************************************************************************)
TripSetItem(k, v) ==
    /\ fpc = "build"
    /\ Len(record) < MaxTripFields
    /\ ~DictHas(record, k)
    /\ record' = set_item(record, k, v)
    /\ UNCHANGED <<fpc, fop, fres, gridVars, tokVars, awardVars>>

ExportAdi(header, program_id, program_version) ==
    /\ fpc = "build"
    /\ fpc' = "exported"
    /\ fop' = "export_adi"
    /\ fres' = [content |-> export_adi(<<record>>, header, program_id,
                                       program_version),
                program_id |-> program_id,
                program_version |-> program_version]
    /\ UNCHANGED <<record, gridVars, tokVars, awardVars>>

ParseAdi ==
    /\ fpc = "exported"
    /\ fpc' = "done"
    /\ fop' = "parse_adi"
    /\ fres' = parse_adi(fres.content)
    /\ UNCHANGED <<record, gridVars, tokVars, awardVars>>

NextTrip ==
    \/ \E k \in TripKeys, v \in TripValues : TripSetItem(k, v)
    \/ \E h \in TripHeaders, id \in ProgramIds, ver \in ProgramVersions :
           ExportAdi(h, id, ver)
    \/ ParseAdi

SpecTrip == Init /\ [][NextTrip]_vars

(***************************************************************************)
(* The document reader as a state machine: a text is put together, then    *)
(* parse_adi or batch_parse_records is called on it.                       *)
(***************************************************************************)
AdiType(seg) ==
    /\ tpc = "input"
    /\ fpc = "build"
    /\ nseg < MaxAdiSegs
    /\ text' = text \o seg
    /\ nseg' = nseg + 1
    /\ UNCHANGED <<pos, result, tpc, passes, last, gridVars, fmtVars, awardVars>>

ParseAdiText ==
    /\ fpc = "build"
    /\ fpc' = "done"
    /\ fop' = "parse_adi"
    /\ fres' = parse_adi(text)
    /\ UNCHANGED <<record, gridVars, tokVars, awardVars>>

BatchParseRecords ==
    /\ fpc = "build"
    /\ fpc' = "done"
    /\ fop' = "batch_parse_records"
    /\ fres' = [records |-> batch_parse_records(text)]
    /\ UNCHANGED <<record, gridVars, tokVars, awardVars>>

NextAdi ==
    \/ \E seg \in AdiSegments : AdiType(seg)
    \/ ParseAdiText
    \/ BatchParseRecords

SpecAdi == Init /\ [][NextAdi]_vars

(***************************************************************************)
(* The award counters as a state machine: a member number is typed and     *)
(* extract_base_skcc is called on it, or contacts are logged and           *)
(* calculate_centurion_progress is called on them.                         *)
(***************************************************************************)
SkccType(c) ==
    /\ apc = "input"
    /\ contacts = <<>>
    /\ Len(skcc) < MaxSkccLen
    /\ skcc' = Append(skcc, c)
    /\ UNCHANGED <<contacts, apc, aop, ares, gridVars, tokVars, fmtVars>>

ExtractBaseSkcc ==
    /\ apc = "input"
    /\ contacts = <<>>
    /\ apc' = "done"
    /\ aop' = "extract_base_skcc"
    /\ ares' = extract_base_skcc(skcc)
    /\ UNCHANGED <<skcc, contacts, gridVars, tokVars, fmtVars>>

LogContact(callsign, number, mode, key_type) ==
    /\ apc = "input"
    /\ skcc = <<>>
    /\ Len(contacts) < MaxContacts
    /\ contacts' = Append(contacts,
                          <<callsign, number, mode, key_type, "20240101", "40M">>)
    /\ UNCHANGED <<skcc, apc, aop, ares, gridVars, tokVars, fmtVars>>

CalculateCenturionProgress ==
    /\ apc = "input"
    /\ skcc = <<>>
    /\ apc' = "done"
    /\ aop' = "calculate_centurion_progress"
    /\ ares' = calculate_centurion_progress(contacts)
    /\ UNCHANGED <<skcc, contacts, gridVars, tokVars, fmtVars>>

NextAward ==
    \/ \E c \in SkccChars : SkccType(c)
    \/ ExtractBaseSkcc
    \/ \E callsign \in Callsigns, number \in ContactNumbers,
           mode \in Modes, key_type \in KeyTypes :
           LogContact(callsign, number, mode, key_type)
    \/ CalculateCenturionProgress

SpecAward == Init /\ [][NextAward]_vars

(***************************************************************************)
(* Claims about the grid decoder, under SpecGrid.                          *)
(***************************************************************************)
GridLengths == {4, 6, 8, 10}

\* C2: every grid string whose length is not 4, 6, 8 or 10 is rejected with
\* the invalid-length error, by grid_to_latlon and so by calculate_distance
\* and calculate_bearing; no coordinate is returned for it.
C2_BadLengthRejected ==
    (gpc = "done" /\ Len(grid) \notin GridLengths)
        => (~gres.ok /\ gres.err = "length")

\* half of the finest resolution present in a grid string of n chars,
\* <<lat, lon>>: 0.5/1 degree, 1/48 and 1/24, 1/480 and 1/240, 1/11520 and 1/5760
HalfCell(n) ==
    IF n >= 10 THEN <<Scale \div 11520, Scale \div 5760>>
    ELSE IF n >= 8 THEN <<Scale \div 480, Scale \div 240>>
    ELSE IF n >= 6 THEN <<Scale \div 48, Scale \div 24>>
    ELSE <<Scale \div 2, Scale>>

C4_CoordinateInRange ==
    (gpc = "done" /\ gop = "grid_to_latlon" /\ gres.ok)
        => /\ -90 * Scale <= gres.lat /\ gres.lat <= 90 * Scale
           /\ -180 * Scale <= gres.lon /\ gres.lon <= 180 * Scale

(***************************************************************************)
(* Claims about the tokenizer, under SpecTok.  What a tag is, is said here *)
(* from the format `<name:n>value`, apart from the scan loop.              *)
(***************************************************************************)
IsDigitStr(s) == s # <<>> /\ \A j \in 1..Len(s) : s[j] \in {Digits[k] : k \in 1..10}

\* the first place from j on where t holds ch, 0 when there is none
RECURSIVE FirstPlace(_, _, _)
FirstPlace(t, j, ch) ==
    IF j > Len(t) THEN 0 ELSE IF t[j] = ch THEN j ELSE FirstPlace(t, j + 1, ch)

\* the ':' and the '>' of the tag that starts after i chars of t
TagColon(t, i) == FirstPlace(t, i + 2, ":")
TagClose(t, i) == FirstPlace(t, TagColon(t, i) + 1, ">")

\* a well-formed tag `<name:n>` starts after i chars of t: '<', a name of one
\* char or more without ':', '<' and '>', then ':', digits, and '>'
HasTagAt(t, i) ==
    /\ i + 1 <= Len(t) /\ t[i + 1] = "<"
    /\ TagColon(t, i) > i + 2
    /\ TagClose(t, i) > TagColon(t, i) + 1
    /\ \A j \in (i + 2)..(TagColon(t, i) - 1) : t[j] \notin {"<", ">"}
    /\ IsDigitStr(SubSeq(t, TagColon(t, i) + 1, TagClose(t, i) - 1))

TagName(t, i) == SubSeq(t, i + 2, TagColon(t, i) - 1)
TagLength(t, i) == DecValue(SubSeq(t, TagColon(t, i) + 1, TagClose(t, i) - 1))
\* where the value of the tag ends: after n chars, or with the text
TagValueEnd(t, i) == Min(TagClose(t, i) + TagLength(t, i), Len(t))
TagValue(t, i) == SubSeq(t, TagClose(t, i) + 1, TagValueEnd(t, i))

\* v is r without the whitespace around it
IsTrimOf(v, r) ==
    \E a, b \in 0..Len(r) :
        /\ a + b <= Len(r)
        /\ v = SubSeq(r, a + 1, Len(r) - b)
        /\ \A j \in 1..a : IsWhite(r[j])
        /\ \A j \in (Len(r) - b + 1)..Len(r) : IsWhite(r[j])
        /\ (v # <<>> => ~IsWhite(v[1]) /\ ~IsWhite(v[Len(v)]))

\* the text from i chars on is well-formed tags one after another, each
\* with a value of exactly the declared length
RECURSIVE IsTagsFrom(_, _)
IsTagsFrom(t, i) ==
    \/ i = Len(t)
    \/ /\ HasTagAt(t, i)
       /\ TagClose(t, i) + TagLength(t, i) <= Len(t)
       /\ IsTagsFrom(t, TagValueEnd(t, i))

\* the places where these tags start
RECURSIVE TagStarts(_, _)
TagStarts(t, i) ==
    IF i >= Len(t) THEN {} ELSE {i} \cup TagStarts(t, TagValueEnd(t, i))

\* the dict d holds the field of the tag at i: upper-case name, trimmed value
HoldsTag(d, t, i) ==
    /\ DictHas(d, to_uppercase(TagName(t, i)))
    /\ IsTrimOf(DictGet(d, to_uppercase(TagName(t, i))), TagValue(t, i))

\* the dict d holds the fields of the tags of t from i on, and nothing else
HoldsExactly(d, t, i) ==
    /\ Len(d) = Cardinality(TagStarts(t, i))
    /\ \A k \in TagStarts(t, i) : HoldsTag(d, t, k)

\* C5: every pass of the scan loop consumes at least one char, so there are
\* never more passes than chars consumed, the scan never runs past the text,
\* and parse_fields returns with the whole text consumed.
C5_ScanConsumes ==
    (tpc \in {"scan", "done"})
        => /\ passes <= pos
           /\ pos <= Len(text)
           /\ (passes > 0 => last.from < last.to /\ last.to = pos)
           /\ (tpc = "done" => pos = Len(text))

C5_Witness ==
    /\ tpc = "done"
    /\ Len(text) >= 5
    /\ passes >= 2
    /\ passes < Len(text)
    /\ last.kind = "no_length"

\* the pass just made began at a well-formed tag
PassAtTag == tpc \in {"scan", "done"} /\ passes > 0 /\ HasTagAt(text, last.from)

\* the first half of C6: a well-formed tag yields one field, the upper-case
\* name with the trimmed value of min(n, remaining) chars, and the scan
\* resumes right after these chars
TagYieldsField ==
    PassAtTag
        => /\ last.kind = "field"
           /\ last.name = to_uppercase(TagName(text, last.from))
           /\ IsTrimOf(last.value, TagValue(text, last.from))
           /\ last.to = TagValueEnd(text, last.from)
           /\ pos = last.to
           /\ DictHas(result, last.name)
           /\ DictGet(result, last.name) = last.value

\* C6 as written: ..., and a text of k well-formed tags with distinct names
\* and values of exactly the declared length parses to exactly k fields.
C6_DistinctNames ==
    /\ TagYieldsField
    /\ (/\ tpc = "done"
        /\ IsTagsFrom(text, 0)
        /\ \A i, j \in TagStarts(text, 0) :
               i # j => TagName(text, i) # TagName(text, j))
           => HoldsExactly(result, text, 0)

\* C6 as amended: ..., and a text of k well-formed tags whose names differ
\* even when letter case is ignored, with values of exactly the declared
\* length, parses to exactly k fields: the upper-case names with the
\* trimmed values.
C6_TagFields ==
    /\ TagYieldsField
    /\ (/\ tpc = "done"
        /\ IsTagsFrom(text, 0)
        /\ \A i, j \in TagStarts(text, 0) :
               i # j => to_uppercase(TagName(text, i)) # to_uppercase(TagName(text, j)))
           => HoldsExactly(result, text, 0)

\* three tags, one with a lower-case name and one with a value to trim
C6_Witness ==
    /\ tpc = "done"
    /\ IsTagsFrom(text, 0)
    /\ Cardinality(TagStarts(text, 0)) = 3
    /\ Len(result) = 3
    /\ \E i \in TagStarts(text, 0) : TagName(text, i) # to_uppercase(TagName(text, i))
    /\ \E i \in TagStarts(text, 0) : ~IsTrimOf(TagValue(text, i), TagValue(text, i))

\* where the tag that starts after i chars of t is cut: the first '<' or '>'
\* after its own '<', or one past the end of the text
TagCut(t, i) ==
    CHOOSE e \in (i + 2)..(Len(t) + 1) :
        /\ e <= Len(t) => t[e] \in {"<", ">"}
        /\ \A j \in (i + 2)..(e - 1) : t[j] \notin {"<", ">"}

\* a length that is no number: without a digit, or with a char that is not
\* a digit, a '+' or whitespace
IsNoNumber(s) ==
    \/ \A j \in 1..Len(s) : to_digit(s[j]) < 0
    \/ \E j \in 1..Len(s) : to_digit(s[j]) < 0 /\ s[j] # "+" /\ ~IsWhite(s[j])

\* the tag that starts after i chars of t is interrupted before its closing
\* '>': by a stray '<', by the end of the text, by a '>' before any ':', or
\* by a length (what stands between the first ':' and the '>') that is no
\* number
IsInterruptedAt(t, i) ==
    /\ i + 1 <= Len(t) /\ t[i + 1] = "<"
    /\ LET e == TagCut(t, i)
           colons == {c \in (i + 2)..(e - 1) : t[c] = ":"}
       IN  \/ e > Len(t)
           \/ t[e] = "<"
           \/ colons = {}
           \/ \E c \in colons :
                  /\ \A c2 \in colons : c <= c2
                  /\ IsNoNumber(SubSeq(t, c + 1, e - 1))

\* where the scan is to resume after the interrupted tag: at the stray '<',
\* after the '>', or at the end of the text
ResumeAfter(t, i) ==
    LET e == TagCut(t, i)
    IN  IF e > Len(t) THEN Len(t) ELSE IF t[e] = "<" THEN e - 1 ELSE e

\* C7: a tag interrupted before its closing '>' emits no field, and the
\* well-formed tags that follow it are emitted with their names and values.
C7_MalformedDropped ==
    /\ (/\ tpc \in {"scan", "done"}
        /\ passes > 0
        /\ IsInterruptedAt(text, last.from))
           => last.kind # "field"
    /\ (/\ tpc = "done"
        /\ IsInterruptedAt(text, 0)
        /\ IsTagsFrom(text, ResumeAfter(text, 0))
        /\ \A i, j \in TagStarts(text, ResumeAfter(text, 0)) :
               i # j => to_uppercase(TagName(text, i)) # to_uppercase(TagName(text, j)))
           => HoldsExactly(result, text, ResumeAfter(text, 0))

(***************************************************************************)
(* Claims about the exporter and the validator, under SpecFmt.             *)
(***************************************************************************)
Count(seq, x) == Cardinality({i \in 1..Len(seq) : seq[i] = x})
IsPriority(name) == \E k \in 1..Len(field_order) : field_order[k] = name
PriorityIndex(name) == CHOOSE k \in 1..Len(field_order) : field_order[k] = name

\* the fields of a record as <<upper-case name, value>>, in insertion order
RecordPairs(rec) == [i \in 1..Len(rec) |-> <<to_uppercase(rec[i][1]), rec[i][2]>>]
NonEmpty(pairs) == SelectSeq(pairs, LAMBDA q : q[2] # <<>>)
EndsWith(t, pat) == Len(t) >= Len(pat) /\ SubSeq(t, Len(t) - Len(pat) + 1, Len(t)) = pat

Formatted == fpc = "done" /\ fop = "format_record"

\* C8: format_record emits every field with a non-empty value exactly once,
\* under its upper-case name, whatever the letter case of its key; it emits
\* no field with an empty value, and its output ends with <EOR>.
C8_EveryFieldEmitted ==
    Formatted
        => /\ \A i \in 1..Len(record) :
                  record[i][2] # <<>> =>
                      Count(fres.emits, RecordPairs(record)[i])
                          = Count(NonEmpty(RecordPairs(record)), RecordPairs(record)[i])
           /\ Len(fres.emits) = Len(NonEmpty(RecordPairs(record)))
           /\ \A j \in 1..Len(fres.emits) : fres.emits[j][2] # <<>>
           /\ EndsWith(fres.text, EOR)

\* C9: in the output of format_record the fields of the priority list come
\* first, in the order of that list, and the remaining fields come after
\* them, in the insertion order of the record.
C9_PriorityOrder ==
    Formatted
        => /\ \A i, j \in 1..Len(fres.emits) :
                  (i < j /\ IsPriority(fres.emits[j][1]))
                      => /\ IsPriority(fres.emits[i][1])
                         /\ PriorityIndex(fres.emits[i][1]) < PriorityIndex(fres.emits[j][1])
           /\ SelectSeq(fres.emits, LAMBDA q : ~IsPriority(q[1]))
                  = SelectSeq(NonEmpty(RecordPairs(record)), LAMBDA q : ~IsPriority(q[1]))
           /\ fres.text = FormatTags(fres.emits) \o EOR

\* a remaining field inserted first, then two priority fields inserted
\* against the order of the list: the output turns all three around
C9_Witness ==
    /\ Formatted
    /\ Len(record) = 3
    /\ Len(fres.emits) = 3
    /\ ~IsPriority(to_uppercase(record[1][1]))
    /\ record[1][1] # to_uppercase(record[1][1])
    /\ record[2][1] = TIME_ON
    /\ record[3][1] = CALL
    /\ fres.emits[1][1] = CALL
    /\ fres.emits[3][1] = to_uppercase(record[1][1])

IsBlank(v) == \A j \in 1..Len(v) : IsWhite(v[j])
\* the record has no field of this name, or a blank one
AbsentOrBlank(rec, name) == \A i \in 1..Len(rec) : rec[i][1] = name => IsBlank(rec[i][2])

\* C10: validate_record returns ok exactly when none of CALL, QSO_DATE and
\* TIME_ON is absent or blank, and the missing fields are those of the three
\* that are absent or blank, in this order; the record is left as it was.
C10_Validate ==
    /\ [](  (fpc = "done" /\ fop = "validate_record")
              => /\ fres.ok = (~AbsentOrBlank(record, CALL)
                                /\ ~AbsentOrBlank(record, QSO_DATE)
                                /\ ~AbsentOrBlank(record, TIME_ON))
                 /\ fres.missing =
                        SelectSeq(<<CALL, QSO_DATE, TIME_ON>>,
                                  LAMBDA name : AbsentOrBlank(record, name)) )
    /\ [][fop' = "validate_record" => record' = record]_vars

\* CALL is there but blank, QSO_DATE is there, TIME_ON is absent
C10_Witness ==
    /\ fpc = "done" /\ fop = "validate_record"
    /\ DictHas(record, CALL) /\ DictGet(record, CALL) = <<" ">>
    /\ DictHas(record, QSO_DATE) /\ DictGet(record, QSO_DATE) = <<"x">>
    /\ ~fres.ok
    /\ fres.missing = <<CALL, TIME_ON>>

(***************************************************************************)
(* The round trip, under SpecTrip.                                         *)
(***************************************************************************)
\* the same name -> value pairs, the names compared without their case
FieldEqual(a, b) ==
    {RecordPairs(a)[i] : i \in 1..Len(a)} = {RecordPairs(b)[i] : i \in 1..Len(b)}

HasRequired(rec) ==
    \A k \in 1..Len(required_fields) :
        DictHas(rec, required_fields[k]) /\ DictGet(rec, required_fields[k]) # <<>>

\* C1: a record with non-empty CALL, QSO_DATE and TIME_ON, exported by
\* export_adi with any header, program id and version and parsed by
\* parse_adi, comes back as the first record with the same name -> value
\* pairs.
C1_RoundTrip ==
    (fpc = "done" /\ fop = "parse_adi" /\ HasRequired(record))
        => /\ Len(fres.records) >= 1
           /\ FieldEqual(fres.records[1], record)

(***************************************************************************)
(* C12.  parse_adi splits the text at the first <EOH>.  The header is what *)
(* the text before it tokenizes to, and is empty when there is no <EOH>;   *)
(* the records come from the text after it, or from the whole text.  Each  *)
(* <EOR>-delimited chunk that is not blank and tokenizes to at least one   *)
(* field gives one record, in the order of the chunks, and no record is    *)
(* empty.                                                                  *)
(***************************************************************************)
HasAt(t, i, pat) ==
    /\ i + Len(pat) <= Len(t)
    /\ \A j \in 1..Len(pat) : t[i + j] = pat[j]

Places(t, pat) == {i \in 0..Len(t) : HasAt(t, i, pat)}
Least(S) == CHOOSE x \in S : \A y \in S : x <= y

HasEoh(t) == Places(t, EOH) # {}
BeforeEoh(t) == SubSeq(t, 1, Least(Places(t, EOH)))
AfterEoh(t) == SubSeq(t, Least(Places(t, EOH)) + Len(EOH) + 1, Len(t))

\* the chunks of r from s chars on: each ends at the next <EOR>, the last
\* one at the end of the text
RECURSIVE ChunksFrom(_, _)
ChunksFrom(r, s) ==
    LET later == {p \in Places(r, EOR) : p >= s}
    IN  IF later = {} THEN <<SubSeq(r, s + 1, Len(r))>>
        ELSE <<SubSeq(r, s + 1, Least(later))>>
             \o ChunksFrom(r, Least(later) + Len(EOR))

GivesRecord(chunk) == ~IsBlank(chunk) /\ parse_fields(chunk) # <<>>

\* the records of the chunks that give one, in the order of the chunks
RecordsOf(r) ==
    LET kept == SelectSeq(ChunksFrom(r, 0), GivesRecord)
    IN  [k \in 1..Len(kept) |-> parse_fields(kept[k])]

C12_SplitAtEoh ==
    (fop = "parse_adi" /\ tpc = "input" /\ fpc = "done")
        => /\ fres.header
                = (IF HasEoh(text) THEN parse_fields(BeforeEoh(text)) ELSE <<>>)
           /\ fres.records
                = RecordsOf(IF HasEoh(text) THEN AfterEoh(text) ELSE text)
           /\ \A k \in 1..Len(fres.records) : fres.records[k] # <<>>

\* a document with two <EOH>, a header field before the first one and a
\* record between them
C12_Witness ==
    /\ fop = "parse_adi" /\ fpc = "done"
    /\ Cardinality(Places(text, EOH)) = 2
    /\ fres.header # <<>>
    /\ Len(fres.records) = 1
    /\ parse_fields(BeforeEoh(AfterEoh(text))) = fres.records[1]

(***************************************************************************)
(* C16.  For every text without an <EOH>, batch_parse_records returns the  *)
(* sequence of records that parse_adi returns as the records of the text:  *)
(* the same count, the same order, the same fields.                        *)
(***************************************************************************)
C16_BatchAsParseAdi ==
    (fop = "batch_parse_records" /\ ~HasEoh(text))
        => fres.records = parse_adi(text).records

\* a text of three chunks, the last one empty, that gives two records
C16_Witness ==
    /\ fop = "batch_parse_records"
    /\ ~HasEoh(text)
    /\ Len(ChunksFrom(text, 0)) = 3
    /\ Len(fres.records) = 2
    /\ fres.records[1] # fres.records[2]

(***************************************************************************)
(* C13.  parse_adi of a document that export_adi produced returns a header *)
(* with ADIF_VER = 3.1.5, PROGRAMID = the program id and PROGRAMVERSION =   *)
(* the program version that export_adi was given, and no record with one   *)
(* of these three names.                                                   *)
(***************************************************************************)
ADIF_VER == <<"A", "D", "I", "F", "_", "V", "E", "R">>
PROGRAMID == <<"P", "R", "O", "G", "R", "A", "M", "I", "D">>
PROGRAMVERSION ==
    <<"P", "R", "O", "G", "R", "A", "M", "V", "E", "R", "S", "I", "O", "N">>

Holds(d, name, value) ==
    \E i \in 1..Len(d) : d[i][1] = name /\ d[i][2] = value

HasName(d, name) == \E i \in 1..Len(d) : d[i][1] = name

C13_HeaderTagsComeBack ==
    [][(fop = "export_adi" /\ fop' = "parse_adi")
          => /\ Holds(fres'.header, ADIF_VER, <<"3", ".", "1", ".", "5">>)
             /\ Holds(fres'.header, PROGRAMID, fres.program_id)
             /\ Holds(fres'.header, PROGRAMVERSION, fres.program_version)
             /\ \A k \in 1..Len(fres'.records) :
                    /\ ~HasName(fres'.records[k], ADIF_VER)
                    /\ ~HasName(fres'.records[k], PROGRAMID)
                    /\ ~HasName(fres'.records[k], PROGRAMVERSION)]_vars

(***************************************************************************)
(* C15.  The length written in a tag counts the characters of the value,   *)
(* as the tokenizer does: for every field that export_adi writes, with a   *)
(* value of one-byte or of two-byte characters, the tokenizer reading the  *)
(* document takes exactly that value for that name and nothing of the text *)
(* after it.                                                               *)
(***************************************************************************)
InFieldOrder(name) == \E k \in 1..Len(field_order) : field_order[k] = name

\* format_record writes the field of this key: the key is in field_order
\* as it stands, or is not in it even in upper case
IsWritten(key) == InFieldOrder(key) \/ ~InFieldOrder(to_uppercase(key))

C15_LengthCountsChars ==
    (fop = "parse_adi" /\ fpc = "done")
        => \A i \in 1..Len(record) :
               IsWritten(record[i][1])
                   => /\ Len(fres.records) = 1
                      /\ Holds(fres.records[1], to_uppercase(record[i][1]),
                               record[i][2])

(***************************************************************************)
(* C17.  The keys of a parsed record are unique after uppercasing.  No two *)
(* entries have the same name and no name has a lower-case letter; a pass  *)
(* that emits a field adds an entry only when the record has none of that  *)
(* name, else it replaces the value; and a text of well-formed tags gives  *)
(* one entry for each distinct uppercased name, with the value of the last *)
(* tag of that name.                                                       *)
(***************************************************************************)
UniqueUpperKeys ==
    /\ \A i, j \in 1..Len(result) : i # j => result[i][1] # result[j][1]
    /\ \A i \in 1..Len(result) :
           \A c \in 1..Len(result[i][1]) : ~InSeq(LowerCase, result[i][1][c])

SameName(t, i, j) == to_uppercase(TagName(t, i)) = to_uppercase(TagName(t, j))

\* the tag at i is the last one of its name in the text
IsLastOfName(t, i) ==
    \A j \in TagStarts(t, 0) : SameName(t, i, j) => j <= i

LastTagWins ==
    (tpc = "done" /\ IsTagsFrom(text, 0))
        => /\ \A i \in TagStarts(text, 0) :
                  IsLastOfName(text, i) => HoldsTag(result, text, i)
           /\ Len(result)
                = Cardinality({i \in TagStarts(text, 0) : IsLastOfName(text, i)})

EmitCounts ==
    (tpc = "scan" /\ passes' = passes + 1 /\ last'.kind = "field")
        => /\ Len(result')
                = Len(result) + (IF HasName(result, last'.name) THEN 0 ELSE 1)
           /\ Holds(result', last'.name, last'.value)
           /\ \A i \in 1..Len(result) :
                  result[i][1] # last'.name => result'[i] = result[i]

C17_KeysUnique ==
    /\ [](UniqueUpperKeys /\ LastTagWins)
    /\ [][EmitCounts]_vars

\* three tags, two of them with names that are equal but for the case, the
\* later one with another value
C17_Witness ==
    /\ tpc = "done"
    /\ IsTagsFrom(text, 0)
    /\ Cardinality(TagStarts(text, 0)) = 3
    /\ Len(result) = 2
    /\ \E i, j \in TagStarts(text, 0) :
           /\ i < j
           /\ SameName(text, i, j)
           /\ TagName(text, i) # TagName(text, j)
           /\ ~IsTrimOf(DictGet(result, to_uppercase(TagName(text, i))),
                        TagValue(text, i))

(***************************************************************************)
(* C18.  extract_base_skcc returns the digits a member number begins with  *)
(* for every number that is digits, then at most one letter suffix C, T or *)
(* S, then at most one multiplier, an 'x' with digits; and                 *)
(* calculate_centurion_progress counts a CW contact made with a mechanical *)
(* key and such a number under these digits.                               *)
(***************************************************************************)
AllDigits(s) == \A i \in 1..Len(s) : to_digit(s[i]) >= 0

\* how many digits s begins with
RECURSIVE LeadingDigits(_)
LeadingDigits(s) ==
    IF s = <<>> \/ to_digit(Head(s)) < 0 THEN 0 ELSE 1 + LeadingDigits(Tail(s))

NumericBase(s) == SubSeq(s, 1, LeadingDigits(s))

IsMultiplier(s) ==
    Len(s) >= 2 /\ s[1] = "x" /\ AllDigits(SubSeq(s, 2, Len(s)))

IsMemberNumber(s) ==
    /\ LeadingDigits(s) >= 1
    /\ LET rest == SubSeq(s, LeadingDigits(s) + 1, Len(s))
           tail == IF rest # <<>> /\ rest[1] \in {"C", "T", "S"}
                   THEN Tail(rest) ELSE rest
       IN  tail = <<>> \/ IsMultiplier(tail)

Counts(c) == c[3] = "CW" /\ c[4] \in {"STRAIGHT", "BUG", "SIDESWIPER"}

C18_BaseOfMemberNumber ==
    /\ (aop = "extract_base_skcc" /\ IsMemberNumber(skcc))
           => ares = [some |-> TRUE, value |-> NumericBase(skcc)]
    /\ (aop = "calculate_centurion_progress")
           => \A k \in 1..Len(contacts) :
                  (Counts(contacts[k]) /\ IsMemberNumber(contacts[k][2]))
                      => \E d \in ares.details :
                             d[1] = NumericBase(contacts[k][2])

(***************************************************************************)
(* C14.  calculate_bearing of two valid grid strings returns a value in    *)
(* the half-open range [0, 360): the angle is normalized by adding 360     *)
(* when it is negative, and the result is never negative and never 360.    *)
(***************************************************************************)
AtLeastZero(b) == b.deg > 0 \/ (b.deg = 0 /\ b.q >= 0)
Below360(b) == b.deg < 360 \/ (b.deg = 360 /\ b.q < 0)

C14_BearingInRange ==
    (gop = "calculate_bearing" /\ gpc = "done" /\ grids # <<>> /\ gres.ok)
        => AtLeastZero(gres.bearing) /\ Below360(gres.bearing)

(***************************************************************************)
(* C11.  batch_calculate_distances never fails.  It returns a list as long *)
(* as the list of grids; element i is the distance from the home grid to   *)
(* grids[i] when both decode and the "no result" marker when either does   *)
(* not, whatever the other elements are.                                   *)
(***************************************************************************)
Decodes(g) == grid_to_latlon(g).ok

IsDistance(d, g1, g2) ==
    /\ d.ok
    /\ d.p1 = grid_to_latlon(g1)
    /\ d.p2 = grid_to_latlon(g2)

C11_BatchTotal ==
    (gop = "batch_calculate_distances")
        => /\ gres.ok
           /\ Len(gres.value) = Len(grids)
           /\ \A i \in 1..Len(grids) :
                  IF Decodes(grid) /\ Decodes(grids[i])
                  THEN /\ gres.value[i].some
                       /\ IsDistance(gres.value[i].value, grid, grids[i])
                  ELSE gres.value[i] = [some |-> FALSE]

\* a batch whose first grid fails and whose second grid has a distance
C11_Witness ==
    /\ gop = "batch_calculate_distances"
    /\ Len(grids) = MaxBatch
    /\ gres.ok
    /\ ~gres.value[1].some
    /\ gres.value[2].some
    /\ grids[1] # grids[3]

====
